---- MODULE Spec2Model ----
(***************************************************************************)
(* A model of the WhisPlay board driver (whisplaydriver.py, class          *)
(* WhisPlayBoard) and of the pwnagotchi display plugin built on it         *)
(* (whisplay.py, class Whisplay).                                          *)
(*                                                                         *)
(* The bus is observed as the list of lists the driver hands to            *)
(* spi.xfer2 / spi.writebytes2 / spi.writebytes, each tagged with the      *)
(* level of the data/command pin at that moment.  `bus` holds the writes   *)
(* of the last public call.  A byte list is held as [unit, count], the     *)
(* bytes of unit count times over, which is how the driver builds its      *)
(* frames: buffer.extend([high, low]) once per pixel.                      *)
(***************************************************************************)
EXTENDS Integers, Sequences, FiniteSets, TLC

VARIABLES
    phase,                    \* "new" | "ready" | "failed" | "closed"
    gpio_initialized,         \* self._gpio_initialized
    gpio_setup,               \* pin groups GPIO.setup has configured
    gpio_released,            \* GPIO.cleanup() has run
    spi_open,                 \* self.spi is open
    has_writebytes2,          \* the installed spidev offers writebytes2
    dc_pin, rst_pin, led_pin, \* output levels of DC_PIN, RST_PIN, LED_PIN
    red_pwm, green_pwm, blue_pwm,
    current_rgb,              \* <<_current_r, _current_g, _current_b>>, <<>> while unassigned
    backlight_pwm, backlight_mode,
    button_press_callback, button_release_callback,
    event_detect,             \* GPIO.add_event_detect is registered
    line, pending, debounce,  \* button line level, undelivered edges, bounce window
    notified,                 \* callbacks invoked so far, with the edge that caused each
    bus,                      \* bus writes of the last call
    accesses,                 \* GPIO.output and bus accesses of the last call, in order
    running,                  \* per thread: the accesses its operation has still to make
    wire,                     \* the last access made on the transport, and by whom
    raised,                   \* exception the last call ended with, or "none"
    call,                     \* the last call and its arguments
    rgb_log,                  \* set_rgb arguments of the last call, in order
    canvas,                   \* the image handed to render: [w, h, rgb]
    frame                     \* geometry render computed in the last call

vars == <<phase, gpio_initialized, gpio_setup, gpio_released, spi_open,
          has_writebytes2, dc_pin, rst_pin, led_pin,
          red_pwm, green_pwm, blue_pwm, current_rgb,
          backlight_pwm, backlight_mode,
          button_press_callback, button_release_callback, event_detect,
          line, pending, debounce, notified,
          bus, accesses, running, wire, raised, call, rgb_log, canvas, frame>>

panelVars  == <<dc_pin, bus, accesses>>
threadVars == <<running, wire>>
lightVars  == <<led_pin, red_pwm, green_pwm, blue_pwm, current_rgb,
                backlight_pwm, backlight_mode>>
buttonVars == <<button_press_callback, button_release_callback, event_detect,
                line, pending, debounce, notified>>
lifeVars   == <<phase, gpio_initialized, gpio_setup, gpio_released, spi_open,
                has_writebytes2, rst_pin>>
renderVars == <<canvas, frame>>

(***************************************************************************)
(* Program constants.                                                      *)
(***************************************************************************)
LCD_WIDTH == 240
LCD_HEIGHT == 280
max_chunk == 4096
steps == 20
PwmMax == 100
ByteMax == 255

None == "None"
LOW == "LOW"
HIGH == "HIGH"

(***************************************************************************)
(* Bounds of the model.                                                    *)
(***************************************************************************)
MaxOff == 1             \* how far line endpoints stray from a panel corner
MaxData == 2            \* longest caller-supplied pixel buffer, in bytes
MaxPending == 2         \* most button edges waiting for the handler
MaxNotified == 3        \* callbacks recorded before the record stops growing
MaxLine == 4            \* how far a line's end lies from its start, per axis

(***************************************************************************)
(* Python integer operators.                                               *)
(***************************************************************************)
Shr8(v) == v \div 256                   \* v >> 8 (arithmetic shift)
And255(v) == v % 256                    \* v & 0xFF
Min(a, b) == IF a < b THEN a ELSE b
Max(a, b) == IF a > b THEN a ELSE b
Abs(v) == IF v < 0 THEN -v ELSE v

(***************************************************************************)
(* Python floats (IEEE 754 binary64, round to nearest, ties to even).      *)
(* A natural number of any size is a sequence of limbs in base 2^15, least *)
(* significant first, without leading zero limbs.  A float is [s, m, e]    *)
(* with value s * m * 2^e, where m is zero or has exactly 53 bits.         *)
(***************************************************************************)
Limb == 2^15
MantBits == 53

RECURSIVE Pow2(_)
Pow2(n) == IF n = 0 THEN 1 ELSE 2 * Pow2(n - 1)

RECURSIVE BigNorm(_)
BigNorm(a) == IF a # <<>> /\ a[Len(a)] = 0 THEN BigNorm(SubSeq(a, 1, Len(a) - 1)) ELSE a

RECURSIVE BigFromNat(_)
BigFromNat(n) == IF n = 0 THEN <<>> ELSE <<n % Limb>> \o BigFromNat(n \div Limb)

RECURSIVE BigToNat(_)
BigToNat(a) == IF a = <<>> THEN 0 ELSE a[1] + Limb * BigToNat(Tail(a))

RECURSIVE BitLenNat(_)
BitLenNat(n) == IF n = 0 THEN 0 ELSE 1 + BitLenNat(n \div 2)

BigBitLen(a) == IF a = <<>> THEN 0 ELSE 15 * (Len(a) - 1) + BitLenNat(a[Len(a)])

RECURSIVE BigCmpFrom(_, _, _)
BigCmpFrom(a, b, i) ==
    IF i = 0 THEN 0
    ELSE IF a[i] > b[i] THEN 1
    ELSE IF a[i] < b[i] THEN -1
    ELSE BigCmpFrom(a, b, i - 1)

BigCmp(a, b) ==
    IF Len(a) > Len(b) THEN 1
    ELSE IF Len(a) < Len(b) THEN -1
    ELSE BigCmpFrom(a, b, Len(a))

BigLimb(a, i) == IF i <= Len(a) THEN a[i] ELSE 0

RECURSIVE BigAddFrom(_, _, _, _)
BigAddFrom(a, b, i, carry) ==
    IF i > Len(a) /\ i > Len(b)
    THEN (IF carry = 0 THEN <<>> ELSE <<carry>>)
    ELSE LET t == BigLimb(a, i) + BigLimb(b, i) + carry
         IN  <<t % Limb>> \o BigAddFrom(a, b, i + 1, t \div Limb)

BigAdd(a, b) == BigAddFrom(a, b, 1, 0)

\* a - b for a >= b
RECURSIVE BigSubFrom(_, _, _, _)
BigSubFrom(a, b, i, borrow) ==
    IF i > Len(a) THEN <<>>
    ELSE LET t == a[i] - BigLimb(b, i) - borrow
         IN  <<t % Limb>> \o BigSubFrom(a, b, i + 1, IF t < 0 THEN 1 ELSE 0)

BigSub(a, b) == BigNorm(BigSubFrom(a, b, 1, 0))

\* a * k for 0 <= k < 2^15
RECURSIVE BigMulSmallFrom(_, _, _, _)
BigMulSmallFrom(a, k, i, carry) ==
    IF i > Len(a) THEN (IF carry = 0 THEN <<>> ELSE <<carry>>)
    ELSE LET t == a[i] * k + carry
         IN  <<t % Limb>> \o BigMulSmallFrom(a, k, i + 1, t \div Limb)

BigMulSmall(a, k) == IF k = 0 THEN <<>> ELSE BigMulSmallFrom(a, k, 1, 0)

Zeros(n) == [i \in 1..n |-> 0]

BigShl(a, n) ==
    IF a = <<>> THEN <<>>
    ELSE Zeros(n \div 15) \o BigMulSmall(a, Pow2(n % 15))

\* floor(a / k) for 0 < k <= 2^15, from the top limb down
RECURSIVE BigDivSmallFrom(_, _, _, _)
BigDivSmallFrom(a, k, i, rem) ==
    IF i = 0 THEN <<>>
    ELSE LET t == rem * Limb + a[i]
         IN  BigDivSmallFrom(a, k, i - 1, t % k) \o <<t \div k>>

BigShr(a, n) ==
    LET dropped == IF n \div 15 >= Len(a) THEN <<>>
                   ELSE SubSeq(a, n \div 15 + 1, Len(a))
    IN  BigNorm(BigDivSmallFrom(dropped, Pow2(n % 15), Len(dropped), 0))

RECURSIVE BigMulFrom(_, _, _)
BigMulFrom(a, b, i) ==
    IF i > Len(b) THEN <<>>
    ELSE BigAdd(Zeros(i - 1) \o BigMulSmall(a, b[i]), BigMulFrom(a, b, i + 1))

BigMul(a, b) == BigNorm(BigMulFrom(a, b, 1))

BigOdd(a) == a # <<>> /\ a[1] % 2 = 1

FZero == [s |-> 1, m |-> <<>>, e |-> 0]

\* The float nearest to s * (M + d) * 2^e, where 0 <= d < 1 and d > 0 iff
\* sticky; a sticky M has at least 55 bits.
RoundF(s, M, e, sticky) ==
    LET bl == BigBitLen(M)
        sh == bl - MantBits
        q  == BigShr(M, sh)
        r  == BigSub(M, BigShl(q, sh))
        c  == BigCmp(r, BigShl(<<1>>, sh - 1))
        up == c > 0 \/ (c = 0 /\ (sticky \/ BigOdd(q)))
        q1 == IF up THEN BigAdd(q, <<1>>) ELSE q
    IN  IF M = <<>> THEN FZero
        ELSE IF bl <= MantBits
        THEN [s |-> s, m |-> BigShl(M, MantBits - bl), e |-> e - (MantBits - bl)]
        ELSE IF BigBitLen(q1) > MantBits
        THEN [s |-> s, m |-> BigShr(q1, 1), e |-> e + sh + 1]
        ELSE [s |-> s, m |-> q1, e |-> e + sh]

FFromInt(n) == RoundF(IF n < 0 THEN -1 ELSE 1, BigFromNat(IF n < 0 THEN -n ELSE n), 0, FALSE)

FMul(a, b) == RoundF(a.s * b.s, BigMul(a.m, b.m), a.e + b.e, FALSE)

FAdd(a, b) ==
    LET e  == IF a.e < b.e THEN a.e ELSE b.e
        Ma == BigShl(a.m, a.e - e)
        Mb == BigShl(b.m, b.e - e)
        c  == BigCmp(Ma, Mb)
    IN  IF a.m = <<>> THEN b
        ELSE IF b.m = <<>> THEN a
        ELSE IF a.s = b.s THEN RoundF(a.s, BigAdd(Ma, Mb), e, FALSE)
        ELSE IF c = 0 THEN FZero
        ELSE IF c > 0 THEN RoundF(a.s, BigSub(Ma, Mb), e, FALSE)
        ELSE RoundF(b.s, BigSub(Mb, Ma), e, FALSE)

FNeg(a) == [a EXCEPT !.s = -a.s]
FSub(a, b) == FAdd(a, FNeg(b))

\* One step of binary long division of r / d: the next quotient bit.
DivStep(qr, d) ==
    LET r2 == BigMulSmall(qr.r, 2)
        q2 == BigMulSmall(qr.q, 2)
    IN  IF BigCmp(r2, d) >= 0
        THEN [q |-> BigAdd(q2, <<1>>), r |-> BigSub(r2, d)]
        ELSE [q |-> q2, r |-> r2]

\* quotient and remainder so far, as limb sequences
QuotRem == [q : Seq(Nat), r : Seq(Nat)]

\* n steps.  A function, so that each step is evaluated before the next
\* one starts; the halving keeps the evaluation shallow.
LongDiv[n \in Nat, qr \in QuotRem, d \in Seq(Nat)] ==
    IF n = 0 THEN qr
    ELSE IF n = 1 THEN DivStep(qr, d)
    ELSE LongDiv[n - (n \div 2), LongDiv[n \div 2, qr, d], d]

GuardBits == MantBits + 3

\* a / b for b # 0: both mantissas have 53 bits, so a.m < 2 * b.m.
FDiv(a, b) ==
    LET first == BigCmp(a.m, b.m) >= 0
        qr == LongDiv[GuardBits, [q |-> IF first THEN <<1>> ELSE <<>>,
                                  r |-> IF first THEN BigSub(a.m, b.m) ELSE a.m], b.m]
    IN  IF a.m = <<>> THEN FZero
        ELSE RoundF(a.s * b.s, qr.q, a.e - b.e - GuardBits, qr.r # <<>>)

\* int(a): truncation toward zero
FTrunc(a) ==
    IF a.m = <<>> THEN 0
    ELSE IF a.e >= 0 THEN a.s * BigToNat(BigShl(a.m, a.e))
    ELSE a.s * BigToNat(BigShr(a.m, -a.e))

\* a > b for a, b > 0
FGreater(a, b) == a.e > b.e \/ (a.e = b.e /\ BigCmp(a.m, b.m) > 0)

(***************************************************************************)
(* Transport.  A hardware view h is [dc, rst, bus, acc, wb2, usable, err]:  *)
(* the levels of DC_PIN and RST_PIN, the writes so far, every access so    *)
(* far, whether spidev offers writebytes2, whether the LCD pins are        *)
(* claimed, and the exception raised so far.                               *)
(***************************************************************************)
\* One access to the transport: GPIO.output(pin, level), or a bus write.
Output(pin, level) ==
    [kind |-> "output", pin |-> pin, level |-> level, unit |-> <<>>, count |-> 0]
Write(data) ==
    [kind |-> "write", pin |-> "SPI", level |-> None, unit |-> data.unit,
     count |-> data.count]

\* A Python list of bytes.
List(seq) == [unit |-> seq, count |-> 1]

\* len(data)
ListLen(data) == Len(data.unit) * data.count

\* data[from : to]
Slice(data, from, to) ==
    LET end == Min(to, ListLen(data))
        u == Len(data.unit)
    IN  IF data.count = 1 THEN List(SubSeq(data.unit, from + 1, end))
        ELSE IF from % u = 0 /\ end % u = 0
        THEN [unit |-> data.unit, count |-> (end - from) \div u]
        ELSE List([j \in 1..(end - from) |-> data.unit[((from + j - 1) % u) + 1]])

\* spi.xfer2 / spi.writebytes2 / spi.writebytes
SpiWrite(h, data) ==
    IF h.err # "none" THEN h
    ELSE [h EXCEPT !.bus = Append(@, [dc |-> h.dc, unit |-> data.unit,
                                      count |-> data.count]),
                   !.acc = Append(@, Write(data))]

\* GPIO.output(self.DC_PIN, level): raises unless the pin is claimed
GpioOutputDC(h, level) ==
    IF h.err # "none" THEN h
    ELSE IF ~h.usable THEN [h EXCEPT !.err = "RuntimeError"]
    ELSE [h EXCEPT !.dc = level, !.acc = Append(@, Output("DC", level))]

\* for i in range(0, len(data), max_chunk): spi.writebytes(data[i : i + max_chunk])
WriteChunks(h, data) ==
    LET n == (ListLen(data) + max_chunk - 1) \div max_chunk
        chunk(k) == Slice(data, (k - 1) * max_chunk, k * max_chunk)
    IN  IF h.err # "none" THEN h
        ELSE [h EXCEPT !.bus = @ \o [k \in 1..n |->
                [dc |-> h.dc, unit |-> chunk(k).unit, count |-> chunk(k).count]],
                       !.acc = @ \o [k \in 1..n |-> Write(chunk(k))]]

_send_data(h, data) ==
    LET h1 == GpioOutputDC(h, HIGH)
    IN  IF h.wb2 THEN SpiWrite(h1, data)
        ELSE WriteChunks(h1, data)

\* _send_command raising the DC line after every command byte
_send_command_always_data(h, cmd, args) ==
    LET h1 == GpioOutputDC(SpiWrite(GpioOutputDC(h, LOW), List(<<cmd>>)), HIGH)
    IN  IF args # <<>> THEN _send_data(h1, List(args)) ELSE h1

_send_command(h, cmd, args) ==
    LET h1 == SpiWrite(GpioOutputDC(h, LOW), List(<<cmd>>))
    IN  IF args # <<>> THEN _send_data(GpioOutputDC(h1, HIGH), List(args)) ELSE h1

(***************************************************************************)
(* Panel controller.                                                       *)
(***************************************************************************)
\* set_window without the closing memory-write command
set_window_no_ramwr(h, x0, y0, x1, y1, use_horizontal) ==
    IF use_horizontal \in {0, 1}
    THEN _send_command(
           _send_command(h, 42, <<Shr8(x0), And255(x0), Shr8(x1), And255(x1)>>),
           43, <<Shr8(y0 + 20), And255(y0 + 20), Shr8(y1 + 20), And255(y1 + 20)>>)
    ELSE IF use_horizontal \in {2, 3}
    THEN _send_command(
           _send_command(h, 42, <<Shr8(x0 + 20), And255(x0 + 20),
                                  Shr8(x1 + 20), And255(x1 + 20)>>),
           43, <<Shr8(y0), And255(y0), Shr8(y1), And255(y1)>>)
    ELSE h

\* set_window correcting the rows whatever the orientation
set_window_rows_only(h, x0, y0, x1, y1, use_horizontal) ==
    _send_command(
      _send_command(
        _send_command(h, 42, <<Shr8(x0), And255(x0), Shr8(x1), And255(x1)>>),
        43, <<Shr8(y0 + 20), And255(y0 + 20), Shr8(y1 + 20), And255(y1 + 20)>>),
      44, <<>>)

set_window(h, x0, y0, x1, y1, use_horizontal) ==
    LET h2 == IF use_horizontal \in {0, 1}
              THEN _send_command(
                     _send_command(h, 42, <<Shr8(x0), And255(x0), Shr8(x1), And255(x1)>>),
                     43, <<Shr8(y0 + 20), And255(y0 + 20), Shr8(y1 + 20), And255(y1 + 20)>>)
              ELSE IF use_horizontal \in {2, 3}
              THEN _send_command(
                     _send_command(h, 42, <<Shr8(x0 + 20), And255(x0 + 20),
                                            Shr8(x1 + 20), And255(x1 + 20)>>),
                     43, <<Shr8(y0), And255(y0), Shr8(y1), And255(y1)>>)
              ELSE h
    IN  _send_command(h2, 44, <<>>)

\* draw_pixel sending the low byte of the colour first
draw_pixel_low_first(h, x, y, color) ==
    IF x >= LCD_WIDTH \/ y >= LCD_HEIGHT THEN h
    ELSE _send_data(set_window(h, x, y, x, y, 0),
                    List(<<And255(color), And255(Shr8(color))>>))

draw_pixel(h, x, y, color) ==
    IF x >= LCD_WIDTH \/ y >= LCD_HEIGHT THEN h
    ELSE _send_data(set_window(h, x, y, x, y, 0),
                    List(<<And255(Shr8(color)), And255(color)>>))

RECURSIVE line_loop(_, _, _, _, _, _, _, _, _, _, _)
line_loop(h, x0, y0, x1, y1, dx, dy, sx, sy, err, color) ==
    LET h1 == draw_pixel(h, x0, y0, color)
        e2 == 2 * err
        stepx == e2 > -dy
        stepy == e2 < dx
        err1 == IF stepx THEN err - dy ELSE err
        err2 == IF stepy THEN err1 + dx ELSE err1
    IN  IF h1.err # "none" \/ (x0 = x1 /\ y0 = y1) THEN h1
        ELSE line_loop(h1, IF stepx THEN x0 + sx ELSE x0,
                           IF stepy THEN y0 + sy ELSE y0,
                           x1, y1, dx, dy, sx, sy, err2, color)

\* draw_line drawing its two endpoints only
draw_line_endpoints(h, x0, y0, x1, y1, color) ==
    IF x0 = x1 /\ y0 = y1 THEN draw_pixel(h, x0, y0, color)
    ELSE draw_pixel(draw_pixel(h, x0, y0, color), x1, y1, color)

draw_line(h, x0, y0, x1, y1, color) ==
    LET dx == Abs(x1 - x0)
        dy == Abs(y1 - y0)
        sx == IF x0 < x1 THEN 1 ELSE -1
        sy == IF y0 < y1 THEN 1 ELSE -1
    IN  line_loop(h, x0, y0, x1, y1, dx, dy, sx, sy, dx - dy, color)

\* the fill buffer with each pixel's low byte first
FillBuffer_low_first(color) ==
    LET high == And255(Shr8(color))
        low  == And255(color)
    IN  [unit |-> <<low, high>>, count |-> LCD_WIDTH * LCD_HEIGHT]

FillBuffer(color) ==
    LET high == And255(Shr8(color))
        low  == And255(color)
    IN  [unit |-> <<high, low>>, count |-> LCD_WIDTH * LCD_HEIGHT]

fill_screen(h, color) ==
    _send_data(set_window(h, 0, 0, LCD_WIDTH - 1, LCD_HEIGHT - 1, 0), FillBuffer(color))

\* draw_image with the height test left out
draw_image_x_only(h, x, y, width, height, pixel_data) ==
    IF x + width > LCD_WIDTH
    THEN [h EXCEPT !.err = "ValueError"]
    ELSE _send_data(set_window(h, x, y, x + width - 1, y + height - 1, 0), pixel_data)

\* draw_image with >= in place of >
draw_image_strict(h, x, y, width, height, pixel_data) ==
    IF (x + width >= LCD_WIDTH) \/ (y + height >= LCD_HEIGHT)
    THEN [h EXCEPT !.err = "ValueError"]
    ELSE _send_data(set_window(h, x, y, x + width - 1, y + height - 1, 0), pixel_data)

draw_image(h, x, y, width, height, pixel_data) ==
    IF (x + width > LCD_WIDTH) \/ (y + height > LCD_HEIGHT)
    THEN [h EXCEPT !.err = "ValueError"]
    ELSE _send_data(set_window(h, x, y, x + width - 1, y + height - 1, 0), pixel_data)

(***************************************************************************)
(* Lighting.  A PWM object is [exists, duty, running]; NoPwm is None.  An  *)
(* RGB channel's duty is kept in 1/255 of a percent, so that               *)
(* 100 - (v / 255 * 100) is the integer 25500 - 100 * v.                   *)
(***************************************************************************)
NoPwm == [exists |-> FALSE, duty |-> 0, running |-> FALSE]
NewPwm(duty) == [exists |-> TRUE, duty |-> duty, running |-> TRUE]    \* GPIO.PWM(..).start(duty)
StopPwm(p) == [p EXCEPT !.running = FALSE]

Duty255(v) == 255 * PwmMax - 100 * v
DutyValid(v) == 0 <= Duty255(v) /\ Duty255(v) <= 255 * PwmMax  \* else ChangeDutyCycle raises

\* A lighting view L is [red, green, blue, cur, log, err].
set_rgb(L, r, g, b) ==
    LET L0 == [L EXCEPT !.log = Append(@, <<r, g, b>>)]
    IN  IF ~L.red.exists \/ ~L.green.exists \/ ~L.blue.exists THEN L0
        ELSE IF ~DutyValid(r) THEN L0
        ELSE IF ~DutyValid(g) THEN [L0 EXCEPT !.red.duty = Duty255(r)]
        ELSE IF ~DutyValid(b) THEN [L0 EXCEPT !.red.duty = Duty255(r),
                                              !.green.duty = Duty255(g)]
        ELSE [L0 EXCEPT !.red.duty = Duty255(r), !.green.duty = Duty255(g),
                        !.blue.duty = Duty255(b), !.cur = <<r, g, b>>]

Clamp255(v) == Max(0, Min(ByteMax, v))

PwmObject == [exists : BOOLEAN, duty : Int, running : BOOLEAN]
LightView == [red : PwmObject, green : PwmObject, blue : PwmObject,
              cur : Seq(Int), log : Seq(Seq(Int)), err : STRING]

\* int(current + i * step)
Interim(current, i, step) == FTrunc(FAdd(FFromInt(current), FMul(FFromInt(i), step)))

set_rgb_fade(L, r_target, g_target, b_target) ==
    LET r_step == FDiv(FFromInt(r_target - L.cur[1]), FFromInt(steps))
        g_step == FDiv(FFromInt(g_target - L.cur[2]), FFromInt(steps))
        b_step == FDiv(FFromInt(b_target - L.cur[3]), FFromInt(steps))
        \* for _ in range(steps + 1): each pass reads the current values anew
        loop[i \in Nat, K \in LightView] ==
            IF i > steps THEN K
            ELSE loop[i + 1, set_rgb(K, Clamp255(Interim(K.cur[1], i, r_step)),
                                        Clamp255(Interim(K.cur[2], i, g_step)),
                                        Clamp255(Interim(K.cur[3], i, b_step)))]
    IN  IF L.cur = <<>> THEN [L EXCEPT !.err = "AttributeError"]
        ELSE loop[0, L]

\* set_backlight with the brightness itself as the duty cycle
set_backlight_direct(B, brightness) ==
    IF ~B.gi THEN B
    ELSE IF B.mode
    THEN IF ~B.pwm.exists /\ ~B.usable THEN B
         ELSE LET B1 == IF ~B.pwm.exists THEN [B EXCEPT !.pwm = NewPwm(100)] ELSE B
              IN  IF 0 <= brightness /\ brightness <= 100
                  THEN [B1 EXCEPT !.pwm.duty = brightness]
                  ELSE B1
    ELSE IF ~B.usable THEN B
         ELSE IF brightness = 0 THEN [B EXCEPT !.led = HIGH]
              ELSE [B EXCEPT !.led = LOW]

\* A backlight view B is [pwm, led, mode, err, gi, usable]: gi is
\* _gpio_initialized, and usable says that the LCD pins are claimed, which
\* GPIO.output and GPIO.PWM need on LED_PIN.
set_backlight(B, brightness) ==
    IF ~B.gi THEN B
    ELSE IF B.mode
    THEN IF ~B.pwm.exists /\ ~B.usable THEN B
         ELSE LET B1 == IF ~B.pwm.exists THEN [B EXCEPT !.pwm = NewPwm(100)] ELSE B
              IN  IF 0 <= brightness /\ brightness <= 100
                  THEN [B1 EXCEPT !.pwm.duty = PwmMax - brightness]
                  ELSE B1
    ELSE IF ~B.usable THEN B
         ELSE IF brightness = 0 THEN [B EXCEPT !.led = HIGH]
              ELSE [B EXCEPT !.led = LOW]

\* set_backlight_mode without the early return for an unchanged mode
set_backlight_mode_always(B, mode) ==
    IF mode
    THEN IF ~B.usable THEN [B EXCEPT !.err = "RuntimeError"]
         ELSE [B EXCEPT !.pwm = NewPwm(100), !.mode = mode]
    ELSE LET B1 == IF B.pwm.exists THEN [B EXCEPT !.pwm = NoPwm] ELSE B
         IN  IF ~B.usable THEN [B1 EXCEPT !.err = "RuntimeError"]
             ELSE [B1 EXCEPT !.led = HIGH, !.mode = mode]

set_backlight_mode(B, mode) ==
    IF mode = B.mode THEN B
    ELSE IF mode
    THEN IF ~B.usable THEN [B EXCEPT !.err = "RuntimeError"]
         ELSE [B EXCEPT !.pwm = NewPwm(100), !.mode = mode]
    ELSE LET B1 == IF B.pwm.exists THEN [B EXCEPT !.pwm = NoPwm] ELSE B
         IN  IF ~B.usable THEN [B1 EXCEPT !.err = "RuntimeError"]
             ELSE [B1 EXCEPT !.led = HIGH, !.mode = mode]

(***************************************************************************)
(* Render pipeline (whisplay.py).  A canvas is [w, h, rgb]: an image of    *)
(* w x h pixels of one colour.  Resizing keeps the colour; PIL's crop      *)
(* pads what lies outside the resized image with black.                    *)
(***************************************************************************)
RECURSIVE BitAnd(_, _)
BitAnd(a, b) == IF a = 0 \/ b = 0 THEN 0
                ELSE (a % 2) * (b % 2) + 2 * BitAnd(a \div 2, b \div 2)

RECURSIVE BitOr(_, _)
BitOr(a, b) == IF a = 0 THEN b
               ELSE IF b = 0 THEN a
               ELSE Max(a % 2, b % 2) + 2 * BitOr(a \div 2, b \div 2)

\* the packing with green shifted into place unmasked
rgb565_unmasked(r, g, b) == BitOr(BitOr(BitAnd(r, 248) * 256, g * 8), b \div 8)

\* ((r & 0xF8) << 8) | ((g & 0xFC) << 3) | (b >> 3)
rgb565(r, g, b) == BitOr(BitOr(BitAnd(r, 248) * 256, BitAnd(g, 252) * 8), b \div 8)

\* [(rgb565 >> 8) & 0xFF, rgb565 & 0xFF]
PixelBytes(rgb) == LET v == rgb565(rgb[1], rgb[2], rgb[3])
                   IN  <<BitAnd(v \div 256, 255), BitAnd(v, 255)>>

\* the resize with the scaled side rounded to the nearest integer
Geometry_rounded(original_width, original_height) ==
    IF original_width * LCD_HEIGHT > LCD_WIDTH * original_height
    THEN LET new_width == (2 * LCD_HEIGHT * original_width + original_height)
                              \div (2 * original_height)
             offset_x == (new_width - LCD_WIDTH) \div 2
         IN  [branch |-> "wider", new_width |-> new_width, new_height |-> LCD_HEIGHT,
              box |-> <<offset_x, 0, offset_x + LCD_WIDTH, LCD_HEIGHT>>]
    ELSE LET new_height == (2 * LCD_WIDTH * original_height + original_width)
                               \div (2 * original_width)
             offset_y == (new_height - LCD_HEIGHT) \div 2
         IN  [branch |-> "taller", new_width |-> LCD_WIDTH, new_height |-> new_height,
              box |-> <<0, offset_y, LCD_WIDTH, offset_y + LCD_HEIGHT>>]

Geometry(original_width, original_height) ==
    LET screen_width == LCD_WIDTH
        screen_height == LCD_HEIGHT
        aspect_ratio == FDiv(FFromInt(original_width), FFromInt(original_height))
        screen_aspect_ratio == FDiv(FFromInt(screen_width), FFromInt(screen_height))
    IN  IF FGreater(aspect_ratio, screen_aspect_ratio)
        THEN LET new_height == screen_height
                 new_width == FTrunc(FMul(FFromInt(new_height), aspect_ratio))
                 offset_x == (new_width - screen_width) \div 2
             IN  [branch |-> "wider", new_width |-> new_width, new_height |-> new_height,
                  box |-> <<offset_x, 0, offset_x + screen_width, screen_height>>]
        ELSE LET new_width == screen_width
                 new_height == FTrunc(FDiv(FFromInt(new_width), aspect_ratio))
                 offset_y == (new_height - screen_height) \div 2
             IN  [branch |-> "taller", new_width |-> new_width, new_height |-> new_height,
                  box |-> <<0, offset_y, screen_width, offset_y + screen_height>>]

\* cropped_img.getpixel((x, y)) for a resized image of one colour
GetPixel(geo, rgb, x, y) ==
    LET sx == geo.box[1] + x
        sy == geo.box[2] + y
    IN  IF 0 <= sx /\ sx < geo.new_width /\ 0 <= sy /\ sy < geo.new_height
        THEN rgb ELSE <<0, 0, 0>>

\* The crop box lies inside the resized image, so that getpixel returns the
\* source colour at every (x, y) of the panel.
CropInside(geo) ==
    /\ 0 <= geo.box[1] /\ geo.box[3] <= geo.new_width
    /\ 0 <= geo.box[2] /\ geo.box[4] <= geo.new_height

\* for y in range(screen_height): for x in range(screen_width):
\*     pixel_data.extend([(rgb565 >> 8) & 0xFF, rgb565 & 0xFF])
PixelData(geo, rgb) ==
    IF CropInside(geo)
    THEN [unit |-> PixelBytes(rgb), count |-> LCD_HEIGHT * LCD_WIDTH]
    ELSE List([k \in 1..(2 * LCD_HEIGHT * LCD_WIDTH) |->
                  LET p == (k - 1) \div 2
                  IN  PixelBytes(GetPixel(geo, rgb, p % LCD_WIDTH,
                                          p \div LCD_WIDTH))[2 - (k % 2)]])

\* The arguments render hands to draw_image.
RenderBlit == <<0, 0, LCD_WIDTH, LCD_HEIGHT>>

(***************************************************************************)
(* Bring-up (WhisPlayBoard.__init__) and shutdown.                         *)
(***************************************************************************)
\* {0: 0x00, 1: 0xC0, 2: 0x70, 3: 0xA0}.get(USE_HORIZONTAL, 0x00)
Direction(use_horizontal) ==
    CASE use_horizontal = 0 -> 0
      [] use_horizontal = 1 -> 192
      [] use_horizontal = 2 -> 112
      [] use_horizontal = 3 -> 160
      [] OTHER -> 0

USE_HORIZONTAL == 1

\* The register writes of _init_display, in order: <<command, arguments>>.
InitSequence ==
    << <<17, <<>>>>,
       <<54, <<Direction(USE_HORIZONTAL)>>>>,
       <<58, <<5>>>>,
       <<178, <<12, 12, 0, 51, 51>>>>,
       <<183, <<53>>>>,
       <<187, <<50>>>>,
       <<194, <<1>>>>,
       <<195, <<21>>>>,
       <<196, <<32>>>>,
       <<198, <<15>>>>,
       <<208, <<164, 161>>>>,
       <<224, <<208, 8, 14, 9, 9, 5, 49, 51, 72, 23, 20, 21, 49, 52>>>>,
       <<225, <<208, 8, 14, 9, 9, 21, 49, 51, 72, 23, 20, 21, 49, 52>>>>,
       <<33, <<>>>>,
       <<41, <<>>>> >>

Access == [kind : STRING, pin : STRING, level : STRING, unit : Seq(Int), count : Nat]

HwView == [dc : STRING, rst : STRING,
           bus : Seq([dc : STRING, unit : Seq(Int), count : Nat]),
           acc : Seq(Access), wb2 : BOOLEAN,
           usable : BOOLEAN, err : STRING]

\* _reset_lcd driving the reset line high once, without the low pulse
_reset_lcd_no_pulse(h, gi) ==
    IF ~gi \/ ~h.usable THEN h
    ELSE [h EXCEPT !.rst = HIGH, !.acc = @ \o <<Output("RST", HIGH)>>]

\* _reset_lcd: an exception of GPIO.output is caught and printed
_reset_lcd(h, gi) ==
    IF ~gi \/ ~h.usable THEN h
    ELSE [h EXCEPT !.rst = HIGH,
                   !.acc = @ \o <<Output("RST", HIGH), Output("RST", LOW),
                                  Output("RST", HIGH)>>]

_init_display(h) ==
    LET send[i \in Nat, k \in HwView] ==
            IF i > Len(InitSequence) THEN k
            ELSE send[i + 1, _send_command(k, InitSequence[i][1], InitSequence[i][2])]
    IN  send[1, h]

SetmodeOutcomes == {"ok", "RuntimeError", "Exception"}
LcdOutcomes     == {"ok", "setup"}
RgbOutcomes     == {"ok", "setup", "pwm", "start"}  \* where lines 57-66 raise, if at all
ButtonOutcomes  == {"ok", "setup", "detect"}        \* where lines 82-87 raise, if at all
SpiOutcomes     == {"ok", "open"}

\* The driver after __init__, given what each platform call did: env is
\* [setmode, lcd, rgb, button, spi, pwm_mode, wb2].
BringUp(env) ==
    LET gi0 == env.setmode \in {"ok", "RuntimeError"}
        gi  == gi0 /\ env.lcd = "ok"
        rgb_ok == gi /\ env.rgb = "ok"
        rgb_pwm == IF rgb_ok THEN NewPwm(0) ELSE NoPwm
        cur == IF gi /\ env.rgb \in {"ok", "start"} THEN <<0, 0, 0>> ELSE <<>>
        setup == (IF gi THEN {"lcd"} ELSE {})
                 \cup (IF gi /\ env.rgb # "setup" THEN {"rgb"} ELSE {})
                 \cup (IF gi /\ env.button # "setup" THEN {"button"} ELSE {})
        B0 == [pwm |-> NoPwm, led |-> IF gi THEN LOW ELSE None, mode |-> env.pwm_mode,
               err |-> "none", gi |-> gi, usable |-> gi]
        B1 == IF gi THEN set_backlight(B0, 0) ELSE B0
        h0 == [dc |-> None, rst |-> None, bus |-> <<>>, acc |-> <<>>, wb2 |-> env.wb2,
               usable |-> gi, err |-> "none"]
        h2 == IF gi THEN fill_screen(_init_display(_reset_lcd(h0, gi)), 0) ELSE h0
    IN  IF env.spi # "ok"
        THEN [phase |-> "failed", gpio_initialized |-> gi, gpio_setup |-> setup,
              spi_open |-> FALSE, dc_pin |-> None, rst_pin |-> None,
              led_pin |-> B0.led, red_pwm |-> rgb_pwm, green_pwm |-> rgb_pwm,
              blue_pwm |-> rgb_pwm, current_rgb |-> cur, backlight_pwm |-> NoPwm,
              backlight_mode |-> FALSE, event_detect |-> gi /\ env.button = "ok",
              bus |-> <<>>, accesses |-> <<>>, raised |-> "OSError"]
        ELSE [phase |-> "ready", gpio_initialized |-> gi, gpio_setup |-> setup,
              spi_open |-> TRUE, dc_pin |-> h2.dc, rst_pin |-> h2.rst,
              led_pin |-> B1.led, red_pwm |-> rgb_pwm, green_pwm |-> rgb_pwm,
              blue_pwm |-> rgb_pwm, current_rgb |-> cur, backlight_pwm |-> B1.pwm,
              backlight_mode |-> B1.mode, event_detect |-> gi /\ env.button = "ok",
              bus |-> h2.bus, accesses |-> h2.acc, raised |-> "none"]

\* cleanup() on d = [backlight_pwm, spi_open, red_pwm, green_pwm, blue_pwm,
\* gpio_released, raised]
cleanup(d) ==
    LET d1 == [d EXCEPT !.backlight_pwm = IF @.exists THEN StopPwm(@) ELSE @,
                        !.spi_open = FALSE]
    IN  IF ~d.red_pwm.exists
        THEN [d1 EXCEPT !.raised = "AttributeError"]
        ELSE [d1 EXCEPT !.red_pwm = StopPwm(@), !.green_pwm = StopPwm(@),
                        !.blue_pwm = StopPwm(@), !.gpio_released = TRUE,
                        !.raised = "none"]

(***************************************************************************)
(* Input: the handler GPIO.add_event_detect registered.                    *)
(***************************************************************************)
\* _button_event(channel), run for a delivered edge while the line is at
\* `level`: which callback it invokes, if any.
_button_event(gi, level, press_callback, release_callback) ==
    IF ~gi THEN "none"
    ELSE IF level = HIGH
    THEN (IF press_callback # None THEN "press" ELSE "none")
    ELSE (IF release_callback # None THEN "release" ELSE "none")

(***************************************************************************)
(* Views of the state, and the parts of it an action leaves alone.         *)
(***************************************************************************)
LcdPinsUsable == "lcd" \in gpio_setup /\ ~gpio_released

HwNow == [dc |-> dc_pin, rst |-> rst_pin, bus |-> <<>>, acc |-> <<>>,
          wb2 |-> has_writebytes2, usable |-> LcdPinsUsable, err |-> "none"]

LightNow == [red |-> red_pwm, green |-> green_pwm, blue |-> blue_pwm,
             cur |-> current_rgb, log |-> <<>>, err |-> "none"]

BacklightNow == [pwm |-> backlight_pwm, led |-> led_pin, mode |-> backlight_mode,
                 err |-> "none", gi |-> gpio_initialized, usable |-> LcdPinsUsable]

NoFrame == [branch |-> "none", new_width |-> 0, new_height |-> 0, box |-> <<0, 0, 0, 0>>,
            blit |-> <<>>, len |-> 0]
NoCanvas == [w |-> 0, h |-> 0, rgb |-> <<0, 0, 0>>]
NoCall == [op |-> "none", args |-> <<>>]

\* The two contexts that call into the driver: the caller's thread and the
\* thread in which the platform runs the edge callback.
Threads == {"caller", "callback"}
Idle == [t \in Threads |-> [todo |-> <<>>, done |-> 0]]
NoAccess == [by |-> "none", access |-> Output("none", None), dc |-> None]

\* A drawing call: its writes, the DC level it leaves, the exception it ends with.
Panel(op, args, h) ==
    /\ phase = "ready"
    /\ bus' = h.bus
    /\ accesses' = h.acc
    /\ dc_pin' = h.dc
    /\ raised' = h.err
    /\ call' = [op |-> op, args |-> args]
    /\ rgb_log' = <<>>
    /\ UNCHANGED <<lifeVars, threadVars, buttonVars, renderVars, lightVars>>

\* An RGB call.
Rgb(op, args, L) ==
    /\ phase = "ready"
    /\ red_pwm' = L.red
    /\ green_pwm' = L.green
    /\ blue_pwm' = L.blue
    /\ current_rgb' = L.cur
    /\ rgb_log' = L.log
    /\ raised' = L.err
    /\ call' = [op |-> op, args |-> args]
    /\ bus' = <<>>
    /\ accesses' = <<>>
    /\ UNCHANGED <<lifeVars, threadVars, buttonVars, renderVars, dc_pin, led_pin,
                   backlight_pwm, backlight_mode>>

\* A backlight call.
Backlight(op, args, B) ==
    /\ phase = "ready"
    /\ backlight_pwm' = B.pwm
    /\ led_pin' = B.led
    /\ backlight_mode' = B.mode
    /\ raised' = B.err
    /\ call' = [op |-> op, args |-> args]
    /\ bus' = <<>>
    /\ accesses' = <<>>
    /\ rgb_log' = <<>>
    /\ UNCHANGED <<lifeVars, threadVars, buttonVars, renderVars, dc_pin, red_pwm,
                   green_pwm, blue_pwm, current_rgb>>

(***************************************************************************)
(* Actions: one per public method, handler or platform event.             *)
(***************************************************************************)
DrawPixel(x, y, color) ==
    Panel("draw_pixel", <<x, y, color>>, draw_pixel(HwNow, x, y, color))

DrawLine(x0, y0, x1, y1, color) ==
    Panel("draw_line", <<x0, y0, x1, y1, color>>, draw_line(HwNow, x0, y0, x1, y1, color))

FillScreen(color) ==
    Panel("fill_screen", <<color>>, fill_screen(HwNow, color))

SetWindow(x0, y0, x1, y1, use_horizontal) ==
    Panel("set_window", <<x0, y0, x1, y1, use_horizontal>>,
          set_window(HwNow, x0, y0, x1, y1, use_horizontal))

DrawImage(x, y, width, height, pixel_data) ==
    Panel("draw_image", <<x, y, width, height, pixel_data>>,
          draw_image(HwNow, x, y, width, height, List(pixel_data)))

SetRgb(r, g, b) ==
    Rgb("set_rgb", <<r, g, b>>, set_rgb(LightNow, r, g, b))

SetRgbFade(r, g, b) ==
    Rgb("set_rgb_fade", <<r, g, b>>, set_rgb_fade(LightNow, r, g, b))

SetBacklight(brightness) ==
    Backlight("set_backlight", <<brightness>>, set_backlight(BacklightNow, brightness))

SetBacklightMode(mode) ==
    Backlight("set_backlight_mode", <<mode>>, set_backlight_mode(BacklightNow, mode))

Construct(env) ==
    \E d \in {BringUp(env)} :
        /\ phase = "new"
        /\ env.wb2 = has_writebytes2
        /\ phase' = d.phase
        /\ gpio_initialized' = d.gpio_initialized
        /\ gpio_setup' = d.gpio_setup
        /\ spi_open' = d.spi_open
        /\ dc_pin' = d.dc_pin
        /\ rst_pin' = d.rst_pin
        /\ led_pin' = d.led_pin
        /\ red_pwm' = d.red_pwm
        /\ green_pwm' = d.green_pwm
        /\ blue_pwm' = d.blue_pwm
        /\ current_rgb' = d.current_rgb
        /\ backlight_pwm' = d.backlight_pwm
        /\ backlight_mode' = d.backlight_mode
        /\ event_detect' = d.event_detect
        /\ bus' = d.bus
        /\ accesses' = d.accesses
        /\ raised' = d.raised
        /\ call' = [op |-> "__init__",
                    args |-> <<env.setmode, env.lcd, env.rgb, env.button, env.spi>>]
        /\ UNCHANGED <<gpio_released, has_writebytes2, button_press_callback,
                       button_release_callback, line, pending, debounce, notified,
                       rgb_log, renderVars, threadVars>>

Cleanup ==
    LET d == cleanup([backlight_pwm |-> backlight_pwm, spi_open |-> spi_open,
                      red_pwm |-> red_pwm, green_pwm |-> green_pwm,
                      blue_pwm |-> blue_pwm, gpio_released |-> gpio_released,
                      raised |-> "none"])
    IN  /\ phase = "ready"
        /\ phase' = "closed"
        /\ backlight_pwm' = d.backlight_pwm
        /\ spi_open' = d.spi_open
        /\ red_pwm' = d.red_pwm
        /\ green_pwm' = d.green_pwm
        /\ blue_pwm' = d.blue_pwm
        /\ gpio_released' = d.gpio_released
        /\ gpio_setup' = IF d.gpio_released THEN {} ELSE gpio_setup
        /\ event_detect' = (event_detect /\ ~d.gpio_released)
        /\ raised' = d.raised
        /\ call' = [op |-> "cleanup", args |-> <<>>]
        /\ bus' = <<>>
        /\ accesses' = <<>>
        /\ rgb_log' = <<>>
        /\ UNCHANGED <<gpio_initialized, has_writebytes2, dc_pin, rst_pin, led_pin,
                       current_rgb, backlight_mode, button_press_callback,
                       button_release_callback, line, pending, debounce, notified,
                       renderVars, threadVars>>

\* Whisplay.render(canvas)
Render ==
    \E geo \in {Geometry(canvas.w, canvas.h)} :
    \E pixel_data \in {PixelData(geo, canvas.rgb)} :
    LET h == draw_image(HwNow, RenderBlit[1], RenderBlit[2], RenderBlit[3],
                        RenderBlit[4], pixel_data)
    IN  /\ phase = "ready"
        /\ canvas.w >= 1 /\ canvas.h >= 1
        /\ frame' = [branch |-> geo.branch, new_width |-> geo.new_width,
                     new_height |-> geo.new_height, box |-> geo.box,
                     blit |-> RenderBlit, len |-> ListLen(pixel_data)]
        /\ bus' = h.bus
        /\ accesses' = h.acc
        /\ dc_pin' = h.dc
        /\ raised' = h.err
        /\ call' = [op |-> "render", args |-> <<canvas.w, canvas.h>>]
        /\ rgb_log' = <<>>
        /\ UNCHANGED <<lifeVars, threadVars, buttonVars, lightVars, canvas>>

\* A call that only touches the button fields.
Button(op, args) ==
    /\ phase = "ready"
    /\ call' = [op |-> op, args |-> args]
    /\ raised' = "none"
    /\ bus' = <<>>
    /\ accesses' = <<>>
    /\ rgb_log' = <<>>
    /\ UNCHANGED <<lifeVars, threadVars, lightVars, renderVars, dc_pin, event_detect,
                   line, pending, debounce, notified>>

OnButtonPress(callback) ==
    /\ Button("on_button_press", <<callback>>)
    /\ button_press_callback' = callback
    /\ UNCHANGED button_release_callback

OnButtonRelease(callback) ==
    /\ Button("on_button_release", <<callback>>)
    /\ button_release_callback' = callback
    /\ UNCHANGED button_press_callback

\* The button line changes level.  The platform delivers the edge to the
\* handler unless it falls into the bounce window of the last delivered one.
LineChange ==
    LET level == IF line = LOW THEN HIGH ELSE LOW
        seen  == event_detect /\ ~debounce
    IN  /\ phase = "ready"
        /\ Len(pending) < MaxPending
        /\ line' = level
        /\ pending' = IF seen THEN Append(pending, IF level = HIGH THEN "rising" ELSE "falling")
                      ELSE pending
        /\ debounce' = (debounce \/ seen)
        /\ UNCHANGED <<lifeVars, threadVars, lightVars, renderVars, panelVars, raised, call,
                   rgb_log,
                       button_press_callback, button_release_callback, event_detect,
                       notified>>

\* bouncetime=50 has passed since the last delivered edge.
DebounceExpire ==
    /\ debounce
    /\ debounce' = FALSE
    /\ UNCHANGED <<lifeVars, threadVars, lightVars, renderVars, panelVars, raised, call,
                   rgb_log,
                   button_press_callback, button_release_callback, event_detect,
                   line, pending, notified>>

\* The platform's event thread runs _button_event for the oldest delivered edge.
ButtonEvent ==
    /\ phase = "ready"
    /\ pending # <<>>
    /\ Len(notified) < MaxNotified
    /\ notified' = Append(notified,
                          [edge |-> Head(pending),
                           press |-> button_press_callback,
                           release |-> button_release_callback,
                           invoked |-> _button_event(gpio_initialized, line,
                                                     button_press_callback,
                                                     button_release_callback)])
    /\ pending' = Tail(pending)
    /\ UNCHANGED <<lifeVars, threadVars, lightVars, renderVars, panelVars, raised, call,
                   rgb_log,
                   button_press_callback, button_release_callback, event_detect,
                   line, debounce>>

\* The caller's thread enters draw_pixel.  Neither _send_command nor
\* _send_data takes a lock: from here on each of its accesses is a step of
\* its own.
CallerBegin(x, y, color) ==
    /\ phase = "ready"
    /\ running["caller"].todo = <<>>
    /\ running' = [running EXCEPT !["caller"] =
                       [todo |-> draw_pixel(HwNow, x, y, color).acc, done |-> 0]]
    /\ call' = [op |-> "draw_pixel", args |-> <<x, y, color>>]
    /\ raised' = "none"
    /\ bus' = <<>>
    /\ accesses' = <<>>
    /\ rgb_log' = <<>>
    /\ UNCHANGED <<lifeVars, lightVars, buttonVars, renderVars, dc_pin, wire>>

\* The platform's event thread runs _button_event for the oldest delivered
\* edge, and the callback it invokes, if any, enters draw_pixel.
CallbackBegin(x, y, color) ==
    LET invoked == _button_event(gpio_initialized, line, button_press_callback,
                                 button_release_callback)
    IN  /\ phase = "ready"
        /\ pending # <<>>
        /\ running["callback"].todo = <<>>
        /\ pending' = Tail(pending)
        /\ running' = IF invoked = "none" THEN running
                      ELSE [running EXCEPT !["callback"] =
                               [todo |-> draw_pixel(HwNow, x, y, color).acc, done |-> 0]]
        /\ UNCHANGED <<lifeVars, lightVars, renderVars, panelVars, raised, call,
                       rgb_log, button_press_callback, button_release_callback,
                       event_detect, line, debounce, notified, wire>>

\* Thread t makes the next access of its operation: GPIO.output on DC_PIN
\* or a bus write.
TransportAccess(t) ==
    LET a == Head(running[t].todo)
    IN  /\ running[t].todo # <<>>
        /\ dc_pin' = IF a.kind = "output" /\ a.pin = "DC" THEN a.level ELSE dc_pin
        /\ wire' = [by |-> t, access |-> a, dc |-> dc_pin']
        /\ running' = [running EXCEPT ![t] = [todo |-> Tail(@.todo), done |-> @.done + 1]]
        /\ UNCHANGED <<lifeVars, lightVars, buttonVars, renderVars, bus, accesses,
                       raised, call, rgb_log>>

(***************************************************************************)
(* Initial states.                                                         *)
(***************************************************************************)
HealthyEnv(pwm_mode, wb2) ==
    [setmode |-> "ok", lcd |-> "ok", rgb |-> "ok", button |-> "ok", spi |-> "ok",
     pwm_mode |-> pwm_mode, wb2 |-> wb2]

\* The driver right after __init__ in environment env, before any call.
Constructed(env, cv) ==
    \E d \in {BringUp(env)} :
        /\ has_writebytes2 = env.wb2
        /\ phase = d.phase
        /\ gpio_initialized = d.gpio_initialized
        /\ gpio_setup = d.gpio_setup
        /\ gpio_released = FALSE
        /\ spi_open = d.spi_open
        /\ dc_pin = d.dc_pin
        /\ rst_pin = d.rst_pin
        /\ led_pin = d.led_pin
        /\ red_pwm = d.red_pwm
        /\ green_pwm = d.green_pwm
        /\ blue_pwm = d.blue_pwm
        /\ current_rgb = d.current_rgb
        /\ backlight_pwm = d.backlight_pwm
        /\ backlight_mode = d.backlight_mode
        /\ event_detect = d.event_detect
        /\ button_press_callback = None
        /\ button_release_callback = None
        /\ line = LOW
        /\ pending = <<>>
        /\ debounce = FALSE
        /\ notified = <<>>
        /\ bus = <<>>
        /\ accesses = <<>>
        /\ running = Idle
        /\ wire = NoAccess
        /\ raised = "none"
        /\ call = NoCall
        /\ rgb_log = <<>>
        /\ canvas = cv
        /\ frame = NoFrame

\* Before __init__ runs.
InitNew ==
    /\ has_writebytes2 \in BOOLEAN
    /\ phase = "new"
    /\ gpio_initialized = FALSE
    /\ gpio_setup = {}
    /\ gpio_released = FALSE
    /\ spi_open = FALSE
    /\ dc_pin = None
    /\ rst_pin = None
    /\ led_pin = None
    /\ red_pwm = NoPwm
    /\ green_pwm = NoPwm
    /\ blue_pwm = NoPwm
    /\ current_rgb = <<>>
    /\ backlight_pwm = NoPwm
    /\ backlight_mode = FALSE
    /\ event_detect = FALSE
    /\ button_press_callback = None
    /\ button_release_callback = None
    /\ line = LOW
    /\ pending = <<>>
    /\ debounce = FALSE
    /\ notified = <<>>
    /\ bus = <<>>
    /\ accesses = <<>>
    /\ running = Idle
    /\ wire = NoAccess
    /\ raised = "none"
    /\ call = NoCall
    /\ rgb_log = <<>>
    /\ canvas = NoCanvas
    /\ frame = NoFrame

(***************************************************************************)
(* Whisplay.clear()                                                        *)
(***************************************************************************)
Clear ==
    Panel("clear", <<>>, fill_screen(HwNow, 0))

(***************************************************************************)
(* The arguments the calls are explored with.                              *)
(***************************************************************************)
Offsets == {0 - MaxOff, 0, MaxOff}
PixelXs == {0 - MaxOff, 0, LCD_WIDTH - 1, LCD_WIDTH - 1 + MaxOff}
PixelYs == {0 - MaxOff, 0, LCD_HEIGHT - 1, LCD_HEIGHT - 1 + MaxOff}
Colors565 == {0, 43981}                    \* 0x0000 and 0xABCD
OrientationModes == {0, 1, 2, 3}
Windows == {<<0, 0, LCD_WIDTH - 1, LCD_HEIGHT - 1>>,
            <<LCD_WIDTH - 1 - MaxOff, LCD_HEIGHT - 1 - MaxOff, LCD_WIDTH - 1, LCD_HEIGHT - 1>>}
Corners == {<<0, 0>>, <<LCD_WIDTH - 1, LCD_HEIGHT - 1>>}
ImageOrigins == Offsets
ImageWidths == {0 - MaxOff, 0, MaxOff, LCD_WIDTH, LCD_WIDTH + MaxOff}
ImageHeights == {0 - MaxOff, 0, MaxOff, LCD_HEIGHT, LCD_HEIGHT + MaxOff}
Pattern(n) == [i \in 1..n |-> i % 256]     \* a caller's buffer of n bytes
RgbInputs == {<<0, 0, 0>>, <<255, 255, 255>>, <<100, 100, 100>>, <<255, 0, 100>>,
              <<0, 100, 255>>}
RgbOutOfRange == {<<256, 0, 0>>, <<0, 0 - 1, 0>>, <<0, 0, 256>>}
BrightnessInputs == (0 - MaxOff)..(PwmMax + MaxOff)
PressCallbacks == {"on_press", None}        \* on_button_press(f), on_button_press(None)
ReleaseCallbacks == {"on_release", None}
RenderSizes == ({1, 5, 100, 240, 400} \X {1, 3, 99, 200, 280, 400})
               \cup {<<6, 7>>, <<17, 16>>, <<13, 7>>, <<239, 280>>, <<240, 279>>}
RenderColours == {<<255, 255, 255>>, <<200, 100, 50>>}
Envs == [setmode : SetmodeOutcomes, lcd : LcdOutcomes, rgb : RgbOutcomes,
         button : ButtonOutcomes, spi : SpiOutcomes, pwm_mode : BOOLEAN,
         wb2 : BOOLEAN]

(***************************************************************************)
(* Drawing on a driver that came up completely.                            *)
(***************************************************************************)
InitPanel ==
    \E wb2 \in BOOLEAN : Constructed(HealthyEnv(TRUE, wb2), NoCanvas)

NextPanel ==
    \/ \E x \in PixelXs, y \in PixelYs, color \in Colors565 : DrawPixel(x, y, color)
    \/ \E c \in Corners, a \in Offsets, b \in Offsets :
           DrawLine(c[1], c[2], c[1] + a, c[2] + b, 65535)
    \/ \E color \in Colors565 : FillScreen(color)
    \/ Clear
    \/ \E w \in Windows, mode \in OrientationModes :
           SetWindow(w[1], w[2], w[3], w[4], mode)
    \/ \E x \in ImageOrigins, y \in ImageOrigins, width \in ImageWidths,
          height \in ImageHeights :
           DrawImage(x, y, width, height, Pattern(MaxData))
    \/ \E width \in {MaxOff, LCD_WIDTH + MaxOff} :
           DrawImage(0, 0, width, MaxOff, Pattern(max_chunk + MaxData))

SpecPanel == InitPanel /\ [][NextPanel]_vars

(***************************************************************************)
(* The pwnagotchi display plugin rendering canvases.                       *)
(***************************************************************************)
InitRender ==
    \E size \in RenderSizes, rgb \in RenderColours, wb2 \in BOOLEAN :
        Constructed(HealthyEnv(TRUE, wb2), [w |-> size[1], h |-> size[2], rgb |-> rgb])

NextRender ==
    \/ Render
    \/ Clear

SpecRender == InitRender /\ [][NextRender]_vars

(***************************************************************************)
(* The plugin rendering panel-sized canvases of every colour of a grid.    *)
(***************************************************************************)
PackChannels == {0, 3, 4, 7, 8, 100, 255}

InitPack ==
    \E r \in PackChannels, g \in PackChannels, b \in PackChannels :
        Constructed(HealthyEnv(TRUE, TRUE),
                    [w |-> LCD_WIDTH, h |-> LCD_HEIGHT, rgb |-> <<r, g, b>>])

NextPack == Render

SpecPack == InitPack /\ [][NextPack]_vars

(***************************************************************************)
(* Lines in every direction from a point near the panel's origin.          *)
(***************************************************************************)
LineStarts == {<<0, 0>>, <<0 - 1, 2>>}
LineReach == (0 - MaxLine)..MaxLine

InitLine ==
    Constructed(HealthyEnv(TRUE, TRUE), NoCanvas)

NextLine ==
    \E p \in LineStarts, a \in LineReach, b \in LineReach, color \in Colors565 :
        DrawLine(p[1], p[2], p[1] + a, p[2] + b, color)

SpecLine == InitLine /\ [][NextLine]_vars

(***************************************************************************)
(* The RGB LED.                                                            *)
(***************************************************************************)
InitFade ==
    Constructed(HealthyEnv(TRUE, TRUE), NoCanvas)

NextFade ==
    \/ \E c \in RgbInputs \cup RgbOutOfRange : SetRgb(c[1], c[2], c[3])
    \/ \E c \in RgbInputs : SetRgbFade(c[1], c[2], c[3])

SpecFade == InitFade /\ [][NextFade]_vars

(***************************************************************************)
(* The backlight.                                                          *)
(***************************************************************************)
InitBacklight ==
    \E pwm_mode \in BOOLEAN : Constructed(HealthyEnv(pwm_mode, TRUE), NoCanvas)

NextBacklight ==
    \/ \E brightness \in BrightnessInputs : SetBacklight(brightness)
    \/ \E mode \in BOOLEAN : SetBacklightMode(mode)

SpecBacklight == InitBacklight /\ [][NextBacklight]_vars

(***************************************************************************)
(* Bring-up in every environment, one call of each kind, shutdown.         *)
(***************************************************************************)
NextLife ==
    \/ \E env \in Envs : Construct(env)
    \/ DrawPixel(0, 0, 0)
    \/ DrawLine(0, 0, MaxOff, MaxOff, 0)
    \/ FillScreen(0)
    \/ SetWindow(0, 0, MaxOff, MaxOff, 0)
    \/ DrawImage(0, 0, 1, MaxData, Pattern(2 * MaxData))
    \/ SetRgb(0, 0, 0)
    \/ SetRgbFade(0, 0, 0)
    \/ SetBacklight(50)
    \/ \E mode \in BOOLEAN : SetBacklightMode(mode)
    \/ OnButtonPress("on_press")
    \/ OnButtonRelease("on_release")
    \/ Cleanup

SpecLife == InitNew /\ [][NextLife]_vars

(***************************************************************************)
(* The button: the line, the platform's edge detection, the handler.       *)
(***************************************************************************)
InitButton ==
    Constructed(HealthyEnv(TRUE, TRUE), NoCanvas)

NextButton ==
    \/ \E callback \in PressCallbacks : OnButtonPress(callback)
    \/ \E callback \in ReleaseCallbacks : OnButtonRelease(callback)
    \/ LineChange
    \/ DebounceExpire
    \/ ButtonEvent

SpecButton == InitButton /\ [][NextButton]_vars

(***************************************************************************)
(* A callback that draws, on the platform's event thread, while the        *)
(* caller's thread draws.                                                  *)
(***************************************************************************)
InitThreads ==
    Constructed(HealthyEnv(TRUE, TRUE), NoCanvas)

NextThreads ==
    \/ running["caller"].todo = <<>> /\ OnButtonPress("on_press")
    \/ LineChange
    \/ DebounceExpire
    \/ CallerBegin(0, 0, 43981)
    \/ CallbackBegin(LCD_WIDTH - 1, LCD_HEIGHT - 1, 0)
    \/ \E t \in Threads : TransportAccess(t)

SpecThreads == InitThreads /\ [][NextThreads]_vars

(***************************************************************************)
(* What the bus saw during the last call, read back as the panel reads it. *)
(***************************************************************************)
DrawingOps == {"draw_pixel", "draw_line", "fill_screen", "draw_image"}

\* Write i opens a window-set: column command, 4 bytes, row command, 4 bytes, RAM write.
IsWindowAt(i) ==
    /\ i + 4 <= Len(bus)
    /\ bus[i] = [dc |-> LOW, unit |-> <<42>>, count |-> 1]

Word(bytes, k) == bytes[k] * 256 + bytes[k + 1]

\* The window that write i opens, before the 20-row offset correction.
WindowAt(i) ==
    [x0 |-> Word(bus[i + 1].unit, 1), x1 |-> Word(bus[i + 1].unit, 3),
     y0 |-> Word(bus[i + 3].unit, 1) - 20, y1 |-> Word(bus[i + 3].unit, 3) - 20]

InPanel(w) ==
    /\ 0 <= w.x0 /\ w.x0 <= w.x1 /\ w.x1 < LCD_WIDTH
    /\ 0 <= w.y0 /\ w.y0 <= w.y1 /\ w.y1 < LCD_HEIGHT

OnPanel(x, y) == 0 <= x /\ x < LCD_WIDTH /\ 0 <= y /\ y < LCD_HEIGHT

\* The five writes of a window-set for (x0, y0, x1, y1).
WindowWrites(x0, y0, x1, y1) ==
    << [dc |-> LOW,  unit |-> <<42>>, count |-> 1],
       [dc |-> HIGH, unit |-> <<x0 \div 256, x0 % 256, x1 \div 256, x1 % 256>>,
        count |-> 1],
       [dc |-> LOW,  unit |-> <<43>>, count |-> 1],
       [dc |-> HIGH, unit |-> <<(y0 + 20) \div 256, (y0 + 20) % 256,
                                (y1 + 20) \div 256, (y1 + 20) % 256>>, count |-> 1],
       [dc |-> LOW,  unit |-> <<44>>, count |-> 1] >>

\* All the bytes of a write, one after another.
Expand(w) == [j \in 1..(Len(w.unit) * w.count) |-> w.unit[((j - 1) % Len(w.unit)) + 1]]

\* The bytes of writes from..Len(ws), in order.
RECURSIVE BytesFrom(_, _)
BytesFrom(ws, from) ==
    IF from > Len(ws) THEN <<>> ELSE Expand(ws[from]) \o BytesFrom(ws, from + 1)

(***************************************************************************)
(* C1.  After any sequence of draw_pixel, draw_line, fill_screen and       *)
(* draw_image calls with arbitrary integer arguments, every window sent to *)
(* the panel lies inside [0, 240) x [0, 280), and a draw_pixel whose       *)
(* coordinate is outside those bounds writes nothing to the bus.           *)
(***************************************************************************)
C1_WindowsInsidePanel ==
    call.op \in DrawingOps =>
        /\ \A i \in 1..Len(bus) : IsWindowAt(i) => InPanel(WindowAt(i))
        /\ (call.op = "draw_pixel" /\ ~OnPanel(call.args[1], call.args[2]))
               => bus = <<>>

(***************************************************************************)
(* C2.  draw_image(x, y, width, height, pixel_data) raises when            *)
(* x + width > 240 or y + height > 280 and then writes nothing and leaves  *)
(* the DC line as it was; otherwise it sends one window-set for            *)
(* (x, y, x + width - 1, y + height - 1) and then the caller's buffer,     *)
(* unmodified and in order, as data.                                       *)
(***************************************************************************)
C2_DrawImageStep ==
    call'.op = "draw_image" =>
        LET x == call'.args[1]
            y == call'.args[2]
            width == call'.args[3]
            height == call'.args[4]
            pixel_data == call'.args[5]
        IN  IF x + width > LCD_WIDTH \/ y + height > LCD_HEIGHT
            THEN raised' = "ValueError" /\ bus' = <<>> /\ dc_pin' = dc_pin
            ELSE /\ raised' = "none"
                 /\ Len(bus') >= 5
                 /\ SubSeq(bus', 1, 5) = WindowWrites(x, y, x + width - 1, y + height - 1)
                 /\ \A i \in 6..Len(bus') : bus'[i].dc = HIGH
                 /\ BytesFrom(bus', 6) = pixel_data

C2_DrawImageContract == [][C2_DrawImageStep]_vars

\* a blit rejected for its height alone
C2_Witness ==
    /\ call.op = "draw_image"
    /\ call.args[1] + call.args[3] <= LCD_WIDTH
    /\ call.args[2] + call.args[4] > LCD_HEIGHT
    /\ raised = "ValueError"
    /\ bus = <<>>

\* The number of bytes in writes from..Len(ws).
RECURSIVE BytesCount(_, _)
BytesCount(ws, from) ==
    IF from > Len(ws) THEN 0
    ELSE Len(ws[from].unit) * ws[from].count + BytesCount(ws, from + 1)

Truncated(value, num, den) ==
    \/ value = num \div den
    \/ (num % den = 0 /\ value = num \div den - 1)

C4_TruncatedGeometry ==
    (call.op = "render" /\ canvas.w >= 1 /\ canvas.h >= 1) =>
        /\ IF canvas.w * LCD_HEIGHT > LCD_WIDTH * canvas.h
           THEN /\ frame.branch = "wider"
                /\ frame.new_height = LCD_HEIGHT
                /\ Truncated(frame.new_width, LCD_HEIGHT * canvas.w, canvas.h)
                /\ frame.box = <<(frame.new_width - LCD_WIDTH) \div 2, 0,
                                 (frame.new_width - LCD_WIDTH) \div 2 + LCD_WIDTH,
                                 LCD_HEIGHT>>
           ELSE /\ frame.branch = "taller"
                /\ frame.new_width = LCD_WIDTH
                /\ Truncated(frame.new_height, LCD_WIDTH * canvas.h, canvas.w)
                /\ frame.box = <<0, (frame.new_height - LCD_HEIGHT) \div 2, LCD_WIDTH,
                                 (frame.new_height - LCD_HEIGHT) \div 2 + LCD_HEIGHT>>
        /\ (canvas.w = 400 /\ canvas.h = 200) =>
               /\ frame.new_width = 560 /\ frame.new_height = 280
               /\ frame.box = <<160, 0, 400, 280>>
        /\ (canvas.w = 100 /\ canvas.h = 400) =>
               /\ frame.new_width = 240 /\ frame.new_height = 960
               /\ frame.box = <<0, 340, 240, 620>>

\* a source whose scaled width, 466.67, truncates to 466 where rounding gives 467
C4_Witness ==
    /\ call.op = "render"
    /\ canvas.w = 5 /\ canvas.h = 3
    /\ frame.branch = "wider"
    /\ frame.new_width = 466

\* C4 as the specification states it: the scaled side is rounded to the
\* nearest integer, round(280*srcW/srcH) and round(240*srcH/srcW).
Rounded(num, den) == (2 * num + den) \div (2 * den)

C4_RoundedGeometry ==
    (call.op = "render" /\ canvas.w >= 1 /\ canvas.h >= 1) =>
        IF canvas.w * LCD_HEIGHT > LCD_WIDTH * canvas.h
        THEN /\ frame.branch = "wider"
             /\ frame.new_height = LCD_HEIGHT
             /\ frame.new_width = Rounded(LCD_HEIGHT * canvas.w, canvas.h)
             /\ frame.box[1] = (frame.new_width - LCD_WIDTH) \div 2
        ELSE /\ frame.branch = "taller"
             /\ frame.new_width = LCD_WIDTH
             /\ frame.new_height = Rounded(LCD_WIDTH * canvas.h, canvas.w)
             /\ frame.box[2] = (frame.new_height - LCD_HEIGHT) \div 2

(***************************************************************************)
(* C5.  For every stored starting colour and every target colour with      *)
(* channels in 0..255, set_rgb_fade applies 21 samples; each channel's     *)
(* samples are monotonic from the starting value towards the target, stay  *)
(* between the two, and the last sample and the stored current colour are  *)
(* the target exactly.                                                     *)
(***************************************************************************)
C5_FadeReachesTarget ==
    (call.op = "set_rgb_fade" /\ raised = "none") =>
        /\ Len(rgb_log) = steps + 1
        /\ \A c \in 1..3 :
              LET start == rgb_log[1][c]
                  target == call.args[c]
              IN  /\ \A i \in 1..steps :
                         IF target >= start
                         THEN rgb_log[i][c] <= rgb_log[i + 1][c]
                         ELSE rgb_log[i][c] >= rgb_log[i + 1][c]
                  /\ \A i \in 1..(steps + 1) :
                         /\ Min(start, target) <= rgb_log[i][c]
                         /\ rgb_log[i][c] <= Max(start, target)
        /\ rgb_log[steps + 1] = call.args
        /\ current_rgb = call.args

(***************************************************************************)
(* C6.  After a bring-up in which any subset of the GPIO mode, the LCD     *)
(* pins, the RGB pins or PWM and the button pin failed, every public call, *)
(* cleanup included, completes without raising.                            *)
(***************************************************************************)
C6_NoCallRaises ==
    (phase \in {"ready", "closed"} /\ call.op # "__init__") => raised = "none"

(***************************************************************************)
(* C7.  After cleanup, whether it returned or failed and whatever bring-up *)
(* achieved, the backlight PWM and the RGB PWM channels that exist are     *)
(* stopped, the bus is closed and the GPIO pins are released.              *)
(***************************************************************************)
C7_CleanupReleasesAll ==
    phase = "closed" =>
        /\ ~spi_open
        /\ gpio_released
        /\ \A p \in {backlight_pwm, red_pwm, green_pwm, blue_pwm} :
               p.exists => ~p.running

(***************************************************************************)
(* C8.  In bring-up each subsystem is guarded on its own: with the GPIO    *)
(* mode set, the panel pins, the RGB LED and the button each come up       *)
(* exactly when their own setup succeeds, whatever happened to the others; *)
(* only a failure to open the bus aborts bring-up and reaches the caller.  *)
(***************************************************************************)
C8_IndependentGuards ==
    call.op = "__init__" =>
        LET setmode == call.args[1]
            lcd == call.args[2]
            rgb == call.args[3]
            button == call.args[4]
            spi == call.args[5]
        IN  /\ IF spi = "ok" THEN phase = "ready" /\ raised = "none"
               ELSE phase = "failed" /\ raised # "none"
            /\ (spi = "ok" /\ setmode # "Exception") =>
                   /\ ("lcd" \in gpio_setup) <=> (lcd = "ok")
                   /\ red_pwm.exists <=> (rgb = "ok")
                   /\ event_detect <=> (button = "ok")

(***************************************************************************)
(* C9.  For every debounced edge delivered on the button line the handler  *)
(* invokes the callback of that edge's direction: the press callback, if   *)
(* registered, on a rising edge (Released -> Pressed) and the release      *)
(* callback, if registered, on a falling edge; a missing callback is a     *)
(* no-op.                                                                  *)
(***************************************************************************)
C9_CallbackMatchesEdge ==
    \A i \in 1..Len(notified) :
        LET n == notified[i]
        IN  IF n.edge = "rising"
            THEN n.invoked = (IF n.press # None THEN "press" ELSE "none")
            ELSE n.invoked = (IF n.release # None THEN "release" ELSE "none")

(***************************************************************************)
(* C10.  With GPIO available, after set_backlight(b) for b in 0..100: in   *)
(* switch mode the backlight line is at the off level (HIGH) for b = 0 and *)
(* at the on level (LOW) for every other b, and no backlight PWM exists;   *)
(* in PWM mode the backlight duty cycle is 100 - b.                        *)
(***************************************************************************)
C10_BacklightLevel ==
    (call.op = "set_backlight" /\ gpio_initialized
     /\ call.args[1] \in 0..PwmMax) =>
        IF backlight_mode
        THEN /\ backlight_pwm.exists
             /\ backlight_pwm.duty = PwmMax - call.args[1]
        ELSE /\ led_pin = (IF call.args[1] = 0 THEN HIGH ELSE LOW)
             /\ ~backlight_pwm.exists

\* PWM mode dimmed to 30: duty cycle 70
C10_Witness ==
    /\ call = [op |-> "set_backlight", args |-> <<30>>]
    /\ backlight_mode
    /\ backlight_pwm.duty = 70
    /\ raised = "none"

(***************************************************************************)
(* C11.  For every (x, y) on the panel and every 16-bit colour c,          *)
(* draw_pixel(x, y, c) sends exactly one window-set, for the 1x1 window at *)
(* (x, y), and then exactly two data bytes: the high byte of c, then the   *)
(* low byte of c.                                                          *)
(***************************************************************************)
C11_PixelWrites ==
    (call.op = "draw_pixel" /\ OnPanel(call.args[1], call.args[2])) =>
        LET x == call.args[1]
            y == call.args[2]
            c == call.args[3]
        IN  /\ raised = "none"
            /\ Len(bus) = 6
            /\ SubSeq(bus, 1, 5) = WindowWrites(x, y, x, y)
            /\ bus[6] = [dc |-> HIGH, unit |-> <<c \div 256, c % 256>>, count |-> 1]

\* the last pixel of the panel drawn in 0xABCD
C11_Witness ==
    /\ call = [op |-> "draw_pixel", args |-> <<LCD_WIDTH - 1, LCD_HEIGHT - 1, 43981>>]
    /\ Len(bus) = 6
    /\ bus[6].unit = <<171, 205>>

(***************************************************************************)
(* C12.  For every 16-bit colour c, fill_screen(c), and clear(), which is  *)
(* fill_screen(0), sends exactly one window-set, for the whole panel       *)
(* (0, 0, 239, 279), and then exactly 240 * 280 * 2 data bytes that        *)
(* alternate the high and the low byte of c, the high byte first.          *)
(***************************************************************************)
C12_FillWrites ==
    call.op \in {"fill_screen", "clear"} =>
        LET c == IF call.op = "clear" THEN 0 ELSE call.args[1]
            high == (c \div 256) % 256
            low == c % 256
            \* data bytes sent before write i
            before(i) == BytesCount(SubSeq(bus, 6, i - 1), 1)
        IN  /\ raised = "none"
            /\ Len(bus) >= 6
            /\ SubSeq(bus, 1, 5) = WindowWrites(0, 0, LCD_WIDTH - 1, LCD_HEIGHT - 1)
            /\ \A i \in 6..Len(bus) :
                   /\ bus[i].dc = HIGH
                   /\ bus[i].unit # <<>> /\ bus[i].count >= 1
                   /\ bus[i].count = 1 \/ Len(bus[i].unit) % 2 = 0
                   /\ \A j \in 1..Len(bus[i].unit) :
                          bus[i].unit[j] = IF (before(i) + j) % 2 = 1 THEN high ELSE low
            /\ \A i \in 1..Len(bus) : IsWindowAt(i) => i = 1
            /\ BytesCount(bus, 6) = LCD_WIDTH * LCD_HEIGHT * 2

\* the panel filled with 0xABCD through spi.writebytes: 33 chunks, the last
\* one of 3328 bytes
C12_Witness ==
    /\ call = [op |-> "fill_screen", args |-> <<43981>>]
    /\ ~has_writebytes2
    /\ Len(bus) = 38
    /\ bus[38] = [dc |-> HIGH, unit |-> <<171, 205>>, count |-> 1664]

(***************************************************************************)
(* C13.  For every (r, g, b) with channels in 0..255 the 16-bit value      *)
(* render packs has the top 5 bits of r in bits 15..11, the top 6 bits of  *)
(* g in bits 10..5 and the top 5 bits of b in bits 4..0, and is sent high  *)
(* byte first; decoding it gives r & 0xF8, g & 0xFC, b & 0xF8, and         *)
(* encoding the decoded colour gives the same 16-bit value.                *)
(***************************************************************************)
C13_Rgb565RoundTrip ==
    call.op = "render" =>
        LET r == canvas.rgb[1]
            g == canvas.rgb[2]
            b == canvas.rgb[3]
            sent == bus[6].unit
            v == sent[1] * 256 + sent[2]
            decoded == <<(v \div 2048) * 8, ((v \div 32) % 64) * 4, (v % 32) * 8>>
        IN  /\ Len(sent) = 2
            /\ sent[1] \in 0..255 /\ sent[2] \in 0..255
            /\ v \div 2048 = r \div 8
            /\ (v \div 32) % 64 = g \div 4
            /\ v % 32 = b \div 8
            /\ decoded = <<r - (r % 8), g - (g % 4), b - (b % 8)>>
            /\ rgb565(decoded[1], decoded[2], decoded[3]) = v

\* (100, 7, 255) packs to 0x603F: the low bits of green are dropped
C13_Witness ==
    /\ call.op = "render"
    /\ canvas.rgb = <<100, 7, 255>>
    /\ bus[6].unit = <<96, 63>>

(***************************************************************************)
(* C14.  When a button callback draws on the edge-notification thread      *)
(* while the caller's thread is inside a drawing operation, the transport  *)
(* accesses of the two operations are never interleaved: whenever a thread *)
(* goes on with an operation it has begun, the last access on the          *)
(* transport was its own.                                                  *)
(***************************************************************************)
C14_Uninterrupted ==
    \A t \in Threads :
        (running[t].done > 0 /\ running[t].todo # <<>>) => wire.by = t

\* Write i carries pixel data: it is sent as data and is not the argument
\* list of a column or row address command.
PixelDataAt(i) ==
    /\ bus[i].dc = HIGH
    /\ ~(i > 1 /\ bus[i - 1].dc = LOW /\ bus[i - 1].unit \in {<<42>>, <<43>>})

\* Writes j-4..j are a window-set: column address, row address, memory write.
WindowSetEndsAt(j) ==
    /\ j >= 5
    /\ bus[j - 4] = [dc |-> LOW, unit |-> <<42>>, count |-> 1]
    /\ bus[j - 3].dc = HIGH /\ Len(bus[j - 3].unit) = 4 /\ bus[j - 3].count = 1
    /\ bus[j - 2] = [dc |-> LOW, unit |-> <<43>>, count |-> 1]
    /\ bus[j - 1].dc = HIGH /\ Len(bus[j - 1].unit) = 4 /\ bus[j - 1].count = 1
    /\ bus[j] = [dc |-> LOW, unit |-> <<44>>, count |-> 1]

(***************************************************************************)
(* C15.  In every draw_pixel, draw_line, fill_screen and draw_image call,  *)
(* every stream of pixel data sent to the panel comes right after a        *)
(* window-set that ends with the memory-write command 0x2C, and no other   *)
(* command lies between that memory-write and the pixel data.              *)
(***************************************************************************)
C15_WindowBeforeData ==
    call.op \in DrawingOps =>
        \A i \in 1..Len(bus) :
            PixelDataAt(i) =>
                \E j \in 1..(i - 1) :
                    /\ WindowSetEndsAt(j)
                    /\ \A k \in (j + 1)..i : bus[k].dc = HIGH

\* a line of two pixels: two window-sets, each followed by its pixel
C15_Witness ==
    /\ call.op = "draw_line"
    /\ Len(bus) = 12
    /\ PixelDataAt(6) /\ WindowSetEndsAt(5)
    /\ PixelDataAt(12) /\ WindowSetEndsAt(11)

\* x as the two bytes of a 16-bit word, high byte first
HighLow(x) == <<x \div 256, x % 256>>

(***************************************************************************)
(* C16.  For every orientation mode in {0, 1, 2, 3},                       *)
(* set_window(x0, y0, x1, y1, mode) sends the column-address command 0x2A, *)
(* the row-address command 0x2B and then the memory-write command 0x2C     *)
(* without arguments.  In modes 0 and 1 the row command carries y0 + 20    *)
(* and y1 + 20 and the column command x0 and x1; in modes 2 and 3 the      *)
(* column command carries x0 + 20 and x1 + 20 and the row command y0 and   *)
(* y1.  Every coordinate is sent high byte first.                          *)
(***************************************************************************)
C16_WindowOffsets ==
    (call.op = "set_window" /\ call.args[5] \in {0, 1, 2, 3}) =>
        LET x0 == call.args[1]
            y0 == call.args[2]
            x1 == call.args[3]
            y1 == call.args[4]
            dx == IF call.args[5] \in {2, 3} THEN 20 ELSE 0
            dy == IF call.args[5] \in {0, 1} THEN 20 ELSE 0
        IN  bus = << [dc |-> LOW,  unit |-> <<42>>, count |-> 1],
                     [dc |-> HIGH, unit |-> HighLow(x0 + dx) \o HighLow(x1 + dx),
                      count |-> 1],
                     [dc |-> LOW,  unit |-> <<43>>, count |-> 1],
                     [dc |-> HIGH, unit |-> HighLow(y0 + dy) \o HighLow(y1 + dy),
                      count |-> 1],
                     [dc |-> LOW,  unit |-> <<44>>, count |-> 1] >>

\* the whole panel in orientation 3: columns 20..259, rows 0..279
C16_Witness ==
    /\ call = [op |-> "set_window",
               args |-> <<0, 0, LCD_WIDTH - 1, LCD_HEIGHT - 1, 3>>]
    /\ Len(bus) = 5
    /\ bus[2].unit = <<0, 20, 1, 3>>
    /\ bus[4].unit = <<0, 0, 1, 23>>

\* The command bytes among the writes ws, in the order sent.
CommandBytes(ws) ==
    LET IsCommand(w) == w.dc = LOW
        cs == SelectSeq(ws, IsCommand)
    IN  [i \in 1..Len(cs) |-> cs[i].unit[1]]

\* sleep-out, orientation, colour format, the gamma, power and porch
\* registers, inversion-on, display-on
InitCommands ==
    <<17, 54, 58, 178, 183, 187, 194, 195, 196, 198, 208, 224, 225, 33, 41>>

(***************************************************************************)
(* C17.  In a bring-up with GPIO available the reset line is driven high,  *)
(* low, high before the first initialization command; the initialization   *)
(* commands are then sent in the fixed order 0x11, 0x36, 0x3A with the     *)
(* argument 0x05, the gamma, power and porch registers, 0x21, and 0x29     *)
(* last; no pixel data is sent before 0x29.                                *)
(***************************************************************************)
C17_ResetThenInit ==
    (call.op = "__init__" /\ phase = "ready" /\ gpio_initialized) =>
        LET cmds == CommandBytes(bus)
            n == Len(InitCommands)
            \* the write that carries display-on
            on == CHOOSE i \in 1..Len(bus) : bus[i].dc = LOW /\ bus[i].unit = <<41>>
        IN  /\ Len(accesses) > 4
            /\ SubSeq(accesses, 1, 3)
                   = <<Output("RST", HIGH), Output("RST", LOW), Output("RST", HIGH)>>
            /\ accesses[4] = Output("DC", LOW)
            /\ \A i \in 4..Len(accesses) : accesses[i].pin # "RST"
            /\ rst_pin = HIGH
            /\ Len(cmds) >= n
            /\ SubSeq(cmds, 1, n) = InitCommands
            /\ \A i \in 1..Len(bus) :
                   (bus[i].dc = LOW /\ bus[i].unit = <<58>>)
                       => bus[i + 1] = [dc |-> HIGH, unit |-> <<5>>, count |-> 1]
            /\ \E i \in 1..Len(bus) : bus[i].dc = LOW /\ bus[i].unit = <<41>>
            /\ \A i \in 1..on :
                   /\ bus[i].dc = LOW => bus[i].unit # <<44>>
                   /\ bus[i].dc = HIGH => (i > 1 /\ bus[i - 1].dc = LOW
                                             /\ bus[i - 1].unit # <<44>>)

\* a complete bring-up: reset pulse, the 15 commands, then the black fill
C17_Witness ==
    /\ call.op = "__init__"
    /\ phase = "ready"
    /\ gpio_initialized
    /\ Len(accesses) > 4
    /\ accesses[2] = Output("RST", LOW)
    /\ CommandBytes(bus) = InitCommands \o <<42, 43, 44>>
    /\ bus[Len(bus)].dc = HIGH

\* How many argument bytes the panel takes after command c.
ArgCount(c) ==
    CASE c \in {42, 43} -> 4
      [] c \in {54, 58, 183, 187, 194, 195, 196, 198} -> 1
      [] c = 178 -> 5
      [] c = 208 -> 2
      [] c \in {224, 225} -> 14
      [] OTHER -> 0

\* How many bytes of pixel data the last call sends behind each window-set.
DataLen ==
    CASE call.op \in {"draw_pixel", "draw_line"} -> 2
      [] call.op \in {"fill_screen", "clear", "render", "__init__"}
             -> 2 * LCD_WIDTH * LCD_HEIGHT
      [] call.op = "draw_image" -> Len(call.args[5])
      [] OTHER -> 0

\* What the panel expects before the first write: a command byte.
Expecting == [expect |-> "command", left |-> 0]

\* What the panel takes the one write w for when it expects s.expect, and
\* what it expects next.  s.expect is "command", "args" or "data"; s.left
\* counts the bytes of pixel data still to come.
KindOf(w, s) ==
    LET c == w.unit[1]
        n == Len(w.unit) * w.count
    IN  IF s.expect = "command"
        THEN [kinds |-> <<"command">>,
              next |-> [expect |-> IF ArgCount(c) > 0 THEN "args"
                                   ELSE IF c = 44 /\ DataLen > 0 THEN "data"
                                   ELSE "command",
                        left |-> IF c = 44 THEN DataLen ELSE 0]]
        ELSE IF s.expect = "args"
        THEN [kinds |-> <<"args">>, next |-> Expecting]
        ELSE [kinds |-> <<"data">>,
              next |-> IF s.left - n > 0
                       THEN [expect |-> "data", left |-> s.left - n]
                       ELSE Expecting]

\* What the panel takes each of the writes lo..hi of ws for when it expects
\* s.expect before write lo: a command byte, the arguments of the command
\* before it, or pixel data behind 0x2C.  The writes are taken in order,
\* the second half starting from what the first half leaves expected.
RECURSIVE Kinds(_, _, _, _)
Kinds(ws, lo, hi, s) ==
    IF lo > hi THEN [kinds |-> <<>>, next |-> s]
    ELSE IF lo = hi THEN KindOf(ws[lo], s)
    ELSE LET mid == (lo + hi) \div 2
             first == Kinds(ws, lo, mid, s)
             rest == Kinds(ws, mid + 1, hi, first.next)
         IN  [kinds |-> first.kinds \o rest.kinds, next |-> rest.next]

\* Where in the accesses of the last call the bus writes are, in order.
WritePositions ==
    LET IsWrite(i) == accesses[i].kind = "write"
    IN  SelectSeq([i \in 1..Len(accesses) |-> i], IsWrite)

(***************************************************************************)
(* C18.  In every operation of the caller's thread each command byte is    *)
(* written to the bus while the DC line is low, and every argument byte    *)
(* and every pixel data byte while it is high.  _send_command writes       *)
(* exactly one command byte, and raises the DC line only when the command  *)
(* has arguments.                                                          *)
(***************************************************************************)
C18_DcLevels ==
    LET kinds == Kinds(bus, 1, Len(bus), Expecting).kinds
        at == WritePositions
    IN  /\ Len(at) = Len(bus)
        /\ \A j \in 1..Len(bus) :
               LET p == at[j]
                   c == bus[j].unit[1]
               IN  IF kinds[j] = "command"
                   THEN /\ bus[j] = [dc |-> LOW, unit |-> <<c>>, count |-> 1]
                        /\ p > 1 /\ accesses[p - 1] = Output("DC", LOW)
                        /\ IF ArgCount(c) > 0
                           THEN /\ p + 3 <= Len(accesses)
                                /\ accesses[p + 1] = Output("DC", HIGH)
                                /\ accesses[p + 2] = Output("DC", HIGH)
                                /\ accesses[p + 3].kind = "write"
                                /\ Len(bus[j + 1].unit) * bus[j + 1].count = ArgCount(c)
                           ELSE IF c = 44 /\ p < Len(accesses)
                           THEN /\ p + 2 <= Len(accesses)
                                /\ accesses[p + 1] = Output("DC", HIGH)
                                /\ accesses[p + 2].kind = "write"
                           ELSE p = Len(accesses) \/ accesses[p + 1] = Output("DC", LOW)
                   ELSE bus[j].dc = HIGH

\* bring-up: sleep-out has no arguments and is followed by the next
\* command with the DC line still low
C18_Witness ==
    /\ call.op = "__init__"
    /\ Len(accesses) > 7
    /\ accesses[5] = Write(List(<<17>>))
    /\ accesses[6] = Output("DC", LOW)
    /\ accesses[7] = Write(List(<<54>>))

\* A backlight PWM channel that has been started and not stopped.
LivePwm(p) == p.exists /\ p.running

C19_LiveOnlyInPwmMode == LivePwm(backlight_pwm) => backlight_mode

C19_Step ==
    /\ \* set_backlight_mode never alters a channel, so a channel that differs
       \* after it is a new one; set_backlight makes one only when none exists
       (LivePwm(backlight_pwm) /\ backlight_pwm'.exists)
           => /\ call'.op = "set_backlight_mode" => backlight_pwm' = backlight_pwm
              /\ call'.op = "set_backlight"
                     => [backlight_pwm' EXCEPT !.duty = 0]
                            = [backlight_pwm EXCEPT !.duty = 0]
    /\ (call'.op = "set_backlight_mode" /\ call'.args[1] = backlight_mode)
           => /\ UNCHANGED <<backlight_mode, backlight_pwm, led_pin>>
              /\ raised' = "none"

(***************************************************************************)
(* C19.  After any sequence of set_backlight and set_backlight_mode calls  *)
(* with GPIO available: a live backlight PWM channel exists only while the *)
(* backlight mode is PWM; no new backlight PWM channel is created while an *)
(* earlier one is still live; and set_backlight_mode with the mode already *)
(* in effect changes neither the mode, the PWM channel nor the backlight   *)
(* line.                                                                   *)
(***************************************************************************)
C19_BacklightChannel == []C19_LiveOnlyInPwmMode /\ [][C19_Step]_vars

\* PWM mode asked for again while the channel runs at duty 70
C19_Witness ==
    /\ call.op = "set_backlight_mode"
    /\ call.args[1]
    /\ backlight_mode
    /\ LivePwm(backlight_pwm)
    /\ backlight_pwm.duty = 70

\* The k-th draw_pixel of the last call, read from the bus: its writes are
\* 6k-5 .. 6k, the window-set and the two bytes of the colour.
PixelCall(k) ==
    LET w == WindowAt(6 * k - 5)
    IN  [x |-> w.x0, y |-> w.y0, x1 |-> w.x1, y1 |-> w.y1, data |-> bus[6 * k]]

(***************************************************************************)
(* C20.  For all integer endpoints (x0, y0), (x1, y1) of a bounded range   *)
(* draw_line terminates; it calls draw_pixel first at (x0, y0) and last at *)
(* (x1, y1), makes exactly max(|x1 - x0|, |y1 - y0|) + 1 draw_pixel calls, *)
(* consecutive coordinates differ by at most 1 in each axis, and every     *)
(* pixel has the same colour.                                              *)
(***************************************************************************)
C20_LinePixels ==
    call.op = "draw_line" =>
        LET x0 == call.args[1]
            y0 == call.args[2]
            x1 == call.args[3]
            y1 == call.args[4]
            color == call.args[5]
            n == Max(Abs(x1 - x0), Abs(y1 - y0)) + 1
        IN  /\ raised = "none"
            /\ Len(bus) = 6 * n
            /\ \A k \in 1..n :
                   /\ IsWindowAt(6 * k - 5)
                   /\ SubSeq(bus, 6 * k - 5, 6 * k - 1)
                          = WindowWrites(PixelCall(k).x, PixelCall(k).y,
                                         PixelCall(k).x, PixelCall(k).y)
                   /\ PixelCall(k).data
                          = [dc |-> HIGH, unit |-> HighLow(color), count |-> 1]
            /\ PixelCall(1).x = x0 /\ PixelCall(1).y = y0
            /\ PixelCall(n).x = x1 /\ PixelCall(n).y = y1
            /\ \A k \in 1..(n - 1) :
                   /\ Abs(PixelCall(k + 1).x - PixelCall(k).x) <= 1
                   /\ Abs(PixelCall(k + 1).y - PixelCall(k).y) <= 1

\* the line from (0, 0) to (4, -3): five pixels, the third at (2, -1) or (2, -2)
C20_Witness ==
    /\ call.op = "draw_line"
    /\ SubSeq(call.args, 1, 4) = <<0, 0, 4, 0 - 3>>
    /\ Len(bus) = 30
    /\ PixelCall(3).x = 2
    /\ PixelCall(5).y = 0 - 3

\* The level set_backlight drives on the backlight line in switch mode for
\* a nonzero brightness: the on level.
SwitchOnLevel ==
    set_backlight([pwm |-> NoPwm, led |-> HIGH, mode |-> FALSE, err |-> "none",
                   gi |-> TRUE, usable |-> TRUE], PwmMax).led

\* A step in which set_backlight_mode takes the driver from PWM mode to
\* switch mode ends with the backlight line at the on level.
C21_Step ==
    (call'.op = "set_backlight_mode" /\ backlight_mode /\ ~backlight_mode')
        => led_pin' = SwitchOnLevel

(***************************************************************************)
(* C21.  When set_backlight_mode switches from PWM mode to switch mode it  *)
(* leaves the backlight on: after the call the backlight line is at the    *)
(* level that set_backlight drives in switch mode for a nonzero            *)
(* brightness, which is the level the constructor enables the backlight    *)
(* with.                                                                   *)
(***************************************************************************)
C21_SwitchLeavesOn == [][C21_Step]_vars

====
